---------------------------- MODULE Spec2Model ----------------------------
(***************************************************************************)
(* A model of fse/models/average.py: the pure Python averaging routine     *)
(* train_average_np and the Average strategy that calls it.                *)
(*                                                                         *)
(* Numbers.  The arrays of the program hold float32 values.  The model     *)
(* represents every value by the rational number it denotes, as a pair     *)
(* <<numerator, denominator>> in lowest terms with a positive denominator, *)
(* and every arithmetic operation by the exact operation on rationals:     *)
(* the rounding of floating point arithmetic is not modelled.              *)
(***************************************************************************)
EXTENDS Integers, Sequences, FiniteSets

\* ------------------------------------------------------------- bounds ---
\* Width of every embedding vector (model.wv.vector_size).
size == 2
\* Number of rows of the output matrix (target.shape[0]).
NumRows == 2
\* Largest number of sentences of one batch.
MaxBatch == 2
\* Largest number of words of one batch, over all its sentences.
MaxWords == 2
\* Number of n-gram hash buckets (model.wv.bucket).
bucket == 2

\* ---------------------------------------------------------- rationals ---
RECURSIVE GCD(_, _)
GCD(a, b) == IF b = 0 THEN a ELSE GCD(b, a % b)

Abs(n) == IF n < 0 THEN -n ELSE n

\* n/d in lowest terms, d # 0.
Rat(n, d) ==
    LET g == GCD(Abs(n), Abs(d))
        s == IF d < 0 THEN -1 ELSE 1
    IN  <<(s * n) \div g, (s * d) \div g>>

Zero == <<0, 1>>
One == <<1, 1>>
RAdd(x, y) == Rat(x[1] * y[2] + y[1] * x[2], x[2] * y[2])
RMul(x, y) == Rat(x[1] * y[1], x[2] * y[2])
RLess(x, y) == x[1] * y[2] < y[1] * x[2]

\* ------------------------------------------------------------ vectors ---
Cols == 1..size
VZero == [c \in Cols |-> Zero]
VAdd(u, v) == [c \in Cols |-> RAdd(u[c], v[c])]
VScale(u, x) == [c \in Cols |-> RMul(u[c], x)]

\* ------------------------------------------------------------- inputs ---
Tokens == {"cat", "say", "dog", "zz"}
Rows == 0..(NumRows - 1)

\* An IndexedSentence: the words and the destination row.  Those of k words
\* over the tokens T with a row of R:
IndexedSentences(T, k, R) == [words : [1..k -> T], index : R]

\* The number of words of a batch.
RECURSIVE Words(_)
Words(batch) ==
    IF batch = <<>> THEN 0 ELSE Len(Head(batch).words) + Words(Tail(batch))

\* The sentences that may follow in a job that has n sentences and w words
\* already: a job has at most MaxBatch sentences and MaxWords words.
Following(T, R, n, w) ==
    IF n >= MaxBatch THEN {}
    ELSE UNION {IndexedSentences(T, k, R) : k \in 0..(MaxWords - w)}

\* All batches of at most MaxBatch - n sentences and MaxWords - w words.
RECURSIVE BatchesOf(_, _, _)
BatchesOf(T, n, w) ==
    {<<>>} \cup
    UNION {{<<o>> \o rest : o \in IndexedSentences(T, k, Rows),
                            rest \in BatchesOf(T, n + 1, w + k)} :
           k \in IF n >= MaxBatch THEN {} ELSE 0..(MaxWords - w)}

\* The weight of a word: 1, as the Average model sets it, or 2.
WeightValues == {One, <<2, 1>>}

\* The vocabulary: token -> entry, whose .index is a row of the embedding
\* matrices.  "dog" and "zz" are out of the vocabulary.
Vocabulary == [w \in {"cat", "say"} |-> [index |-> IF w = "cat" THEN 0 ELSE 1]]
WordRows == {Vocabulary[w].index : w \in DOMAIN Vocabulary}

\* model.wv.vectors, model.wv.vectors_vocab and model.wv.vectors_ngrams.
Vectors == [i \in WordRows |-> [c \in Cols |-> Rat(3 * i + c, 2)]]
VectorsVocab == [i \in WordRows |-> [c \in Cols |-> Rat(7 * (i + 1) + c, 1)]]
Buckets == 0..(bucket - 1)
VectorsNgrams == [b \in Buckets |-> [c \in Cols |-> Rat(20 + 10 * b + c * (b + 1), 3)]]

\* The n-gram hash lists of the out-of-vocabulary tokens, as gensim's
\* ft_ngram_hashes returns them: a list of bucket ids, one per n-gram of the
\* bracketed word, so a bucket may occur twice and the list may be empty.
NgramTable == [w \in {"dog", "zz"} |-> IF w = "dog" THEN <<1, 0, 1>> ELSE <<>>]

\* The output matrix before the first call: rows no average can equal.
Untouched == [r \in Rows |-> [c \in Cols |-> Rat(-(r + 1), 1)]]

\* The weight tables, one scalar for every row of the embedding matrix: all
\* weights 1, or one word with another weight.
WeightTables ==
    {[i \in WordRows |-> IF i = j THEN x ELSE One] : j \in WordRows, x \in WeightValues}

\* The tokens of a run.  Without sub-word fallback no unknown word is told
\* from another, and "dog" stands for them all.
TokensFor(ft) == IF ft THEN Tokens ELSE Tokens \ {"zz"}

\* -------------------------------------------------------------- state ---
\* The locals of a call are functions of the call's number: one call in
\* Spec and SpecJob, two concurrent calls in SpecConc.
VARIABLES
    is_ft,              \* model.is_ft
    vocab,              \* model.wv.vocab
    vectors,            \* model.wv.vectors
    vectors_vocab,      \* model.wv.vectors_vocab
    vectors_ngrams,     \* model.wv.vectors_ngrams
    word_weights,       \* model.word_weights
    ngram_table,        \* what ft_ngram_hashes returns for each unknown word
    s_vectors,          \* target, the output matrix
    indexed_sentences,  \* the batch of each call: the sentences its loop
                        \* has taken from the iterable so far
    owned,              \* the rows the caller lets each call's batch name
    eff_sentences,      \* local of each call
    eff_words,          \* local of each call
    pc,                 \* "loop", "returned"; "setup", "ready", "failed", "done"
    ret,                \* the pair each call returned, <<>> before
    writes,             \* the rows each call assigned, in order
    first,              \* target and returned pair of the first of two runs
    raised              \* the exception raised, "none" before

model == <<is_ft, vocab, vectors, vectors_vocab, vectors_ngrams, word_weights,
           ngram_table>>
locals == <<eff_sentences, eff_words, pc, ret, writes>>
vars == <<model, s_vectors, indexed_sentences, owned, locals, first, raised>>

Calls == DOMAIN pc

\* ------------------------------------------------- train_average_np ---
\* The target and the counters of call t, as one value.
Local(t) == [s_vectors |-> s_vectors, eff_sentences |-> eff_sentences[t],
             eff_words |-> eff_words[t], writes |-> writes[t]]

\* w_vectors: wv.vectors, or wv.vectors_vocab for a FastText model.
w_vectors == IF is_ft THEN vectors_vocab ELSE vectors
w_weights == word_weights

\* word_indices over the distinct words of the sentence: a word that occurs
\* twice is looked up once.
RECURSIVE word_indices_Unique(_)
word_indices_Unique(sent) ==
    IF sent = <<>> THEN <<>>
    ELSE (IF /\ Head(sent) \in DOMAIN vocab
             /\ \A k \in DOMAIN Tail(sent) : Tail(sent)[k] # Head(sent)
          THEN <<vocab[Head(sent)].index>> ELSE <<>>)
         \o word_indices_Unique(Tail(sent))

\* [vocab[word].index for word in sent if word in vocab]
RECURSIVE word_indices(_)
word_indices(sent) ==
    IF sent = <<>> THEN <<>>
    ELSE (IF Head(sent) \in DOMAIN vocab THEN <<vocab[Head(sent)].index>> ELSE <<>>)
         \o word_indices(Tail(sent))

\* np_mult(w_vectors[word_indices], w_weights[word_indices][:,None])
np_mult(indices) ==
    [k \in 1..Len(indices) |-> VScale(w_vectors[indices[k]], w_weights[indices[k]])]

\* np_sum(rows, axis=0)
RECURSIVE np_sum(_)
np_sum(rows) ==
    IF Len(rows) = 0 THEN VZero ELSE VAdd(Head(rows), np_sum(Tail(rows)))

\* NoFtVec normalised by the sum of the weights instead of the count.
NoFtVec_ByWeightSum(indices) ==
    LET total == np_sum([k \in 1..Len(indices) |-> [c \in Cols |-> w_weights[indices[k]]]])[1]
    IN  VScale(np_sum(np_mult(indices)), Rat(total[2], total[1]))

\* vec = np_sum(np_mult(...), axis=0); vec *= 1/len(word_indices).  The cast
\* vec.astype(REAL) is of a REAL array to REAL: it keeps every value.
NoFtVec(indices) == VScale(np_sum(np_mult(indices)), Rat(1, Len(indices)))

\* NoFtSentence without the "continue": a sentence with no resolved word
\* gets a zero row and is counted.
NoFtSentence_NoSkip(st, obj) ==
    LET indices == word_indices(obj.words)
    IN  [s_vectors |-> [st.s_vectors EXCEPT ![obj.index] =
                            IF Len(indices) = 0 THEN VZero ELSE NoFtVec(indices)],
         eff_sentences |-> st.eff_sentences + 1,
         eff_words |-> st.eff_words + Len(indices),
         writes |-> Append(st.writes, obj.index)]

\* NoFtSentence adding to the row (+=) instead of assigning it.
NoFtSentence_Accumulate(st, obj) ==
    LET indices == word_indices(obj.words)
    IN  IF Len(indices) = 0 THEN st
        ELSE [s_vectors |-> [st.s_vectors EXCEPT ![obj.index] =
                                VAdd(st.s_vectors[obj.index], NoFtVec(indices))],
              eff_sentences |-> st.eff_sentences + 1,
              eff_words |-> st.eff_words + Len(indices),
              writes |-> Append(st.writes, obj.index)]

\* NoFtSentence counting the sentence before the "continue".
NoFtSentence_CountFirst(st, obj) ==
    LET indices == word_indices(obj.words)
    IN  IF Len(indices) = 0
        THEN [st EXCEPT !.eff_sentences = st.eff_sentences + 1]
        ELSE [s_vectors |-> [st.s_vectors EXCEPT ![obj.index] = NoFtVec(indices)],
              eff_sentences |-> st.eff_sentences + 1,
              eff_words |-> st.eff_words + Len(indices),
              writes |-> Append(st.writes, obj.index)]

\* One pass of the loop body without sub-word fallback.
NoFtSentence(st, obj) ==
    LET indices == word_indices(obj.words)
    IN  IF Len(indices) = 0 THEN st
        ELSE [s_vectors |-> [st.s_vectors EXCEPT ![obj.index] = NoFtVec(indices)],
              eff_sentences |-> st.eff_sentences + 1,
              eff_words |-> st.eff_words + Len(indices),
              writes |-> Append(st.writes, obj.index)]

\* np_max(w_weights)
RECURSIVE np_max(_)
np_max(S) ==
    LET x == CHOOSE y \in S : TRUE
    IN  IF S = {x} THEN x
        ELSE LET m == np_max(S \ {x}) IN IF RLess(m, x) THEN x ELSE m

oov_weight == np_max({w_weights[i] : i \in DOMAIN w_weights})

\* ft_ngram_hashes(word, min_n, max_n, bucket, True): gensim's function,
\* which is stable: the same word gives the same list.
ft_ngram_hashes(word) == ngram_table[word]

\* ngram_vectors[ngram_hashes]
ngram_rows(hashes) == [k \in 1..Len(hashes) |-> vectors_ngrams[hashes[k]]]

\* FtWord adding the sum of the n-gram rows, not their mean.
FtWord_NgramSum(word) ==
    IF word \in DOMAIN vocab
    THEN LET word_index == vocab[word].index
         IN  VScale(w_vectors[word_index], w_weights[word_index])
    ELSE LET ngram_hashes == ft_ngram_hashes(word)
         IN  IF Len(ngram_hashes) = 0 THEN VZero
             ELSE VScale(np_sum(ngram_rows(ngram_hashes)), oov_weight)

\* What one word adds to vec in the loop "for word in sent".
FtWord(word) ==
    IF word \in DOMAIN vocab
    THEN LET word_index == vocab[word].index
         IN  VScale(w_vectors[word_index], w_weights[word_index])
    ELSE LET ngram_hashes == ft_ngram_hashes(word)
         IN  IF Len(ngram_hashes) = 0 THEN VZero
             ELSE VScale(VScale(np_sum(ngram_rows(ngram_hashes)),
                                Rat(1, Len(ngram_hashes))),
                         oov_weight)

\* vec after the loop over the first n words of sent, from zeros(size).
RECURSIVE FtAccumulate(_, _)
FtAccumulate(sent, n) ==
    IF n = 0 THEN VZero ELSE VAdd(FtAccumulate(sent, n - 1), FtWord(sent[n]))

\* vec / len(sent)
FtVec(sent) == VScale(FtAccumulate(sent, Len(sent)), Rat(1, Len(sent)))

\* FtSentence counting only the words of the vocabulary, as Mode A does.
FtSentence_CountResolved(st, obj) ==
    IF Len(obj.words) = 0 THEN st
    ELSE [s_vectors |-> [st.s_vectors EXCEPT ![obj.index] = FtVec(obj.words)],
          eff_sentences |-> st.eff_sentences + 1,
          eff_words |-> st.eff_words + Len(word_indices(obj.words)),
          writes |-> Append(st.writes, obj.index)]

\* FtSentence assigning the slice s_vectors[:sent_adr + 1], not the row.
FtSentence_Slice(st, obj) ==
    IF Len(obj.words) = 0 THEN st
    ELSE [s_vectors |-> [r \in DOMAIN st.s_vectors |->
                            IF r <= obj.index THEN FtVec(obj.words)
                            ELSE st.s_vectors[r]],
          eff_sentences |-> st.eff_sentences + 1,
          eff_words |-> st.eff_words + Len(obj.words),
          writes |-> Append(st.writes, obj.index)]

\* One pass of the loop body with sub-word fallback.
FtSentence(st, obj) ==
    IF Len(obj.words) = 0 THEN st
    ELSE [s_vectors |-> [st.s_vectors EXCEPT ![obj.index] = FtVec(obj.words)],
          eff_sentences |-> st.eff_sentences + 1,
          eff_words |-> st.eff_words + Len(obj.words),
          writes |-> Append(st.writes, obj.index)]

\* A call at its entry: eff_sentences, eff_words = 0, 0.
Entry(target) ==
    [s_vectors |-> target, eff_sentences |-> 0, eff_words |-> 0, writes |-> <<>>]

\* The loop over the first n sentences of the batch, from the entry.
RECURSIVE Loop(_, _, _)
Loop(batch, target, n) ==
    IF n = 0 THEN Entry(target)
    ELSE IF is_ft THEN FtSentence(Loop(batch, target, n - 1), batch[n])
         ELSE NoFtSentence(Loop(batch, target, n - 1), batch[n])

\* A whole call: the target and the counters at its return.
train_average_np(batch, target) == Loop(batch, target, Len(batch))

Assign(t, st) ==
    /\ s_vectors' = st.s_vectors
    /\ eff_sentences' = [eff_sentences EXCEPT ![t] = st.eff_sentences]
    /\ eff_words' = [eff_words EXCEPT ![t] = st.eff_words]
    /\ writes' = [writes EXCEPT ![t] = st.writes]

\* -------------------------------------------------------------- steps ---
\* The model and the matrix a run starts from, but for the weights.
InitModel ==
    /\ vocab = Vocabulary
    /\ vectors = Vectors
    /\ vectors_vocab = VectorsVocab
    /\ vectors_ngrams = VectorsNgrams
    /\ ngram_table = NgramTable
    /\ s_vectors = Untouched
    /\ first = <<>>
    /\ raised = "none"

\* The locals of the calls T when they start, in the state at.
InitCalls(T, at) ==
    /\ eff_sentences = [t \in T |-> 0]
    /\ eff_words = [t \in T |-> 0]
    /\ indexed_sentences = [t \in T |-> <<>>]
    /\ pc = [t \in T |-> at]
    /\ ret = [t \in T |-> <<>>]
    /\ writes = [t \in T |-> <<>>]

Init ==
    /\ is_ft \in BOOLEAN
    /\ word_weights \in WeightTables
    /\ owned = <<Rows>>
    /\ InitModel
    /\ InitCalls({1}, "loop")

\* The sentences the calls 1..n have taken, one batch after the other.
RECURSIVE Job(_)
Job(n) == IF n = 0 THEN <<>> ELSE Job(n - 1) \o indexed_sentences[n]

\* The sentences the iterable of call t may yield next.
Yields(t) ==
    LET job == Job(Len(indexed_sentences))
    IN  Following(TokensFor(is_ft), owned[t], Len(job), Words(job))

\* TrainNoFt multiplying in place (np_mult(..., out=w_vectors[...])): the
\* rows of the embedding matrix the sentence uses are scaled by the weights.
TrainNoFt_InPlace(t) ==
    /\ pc[t] = "loop"
    /\ ~is_ft
    /\ \E obj \in Yields(t) :
        /\ Assign(t, NoFtSentence(Local(t), obj))
        /\ indexed_sentences' = [indexed_sentences EXCEPT ![t] = Append(@, obj)]
        /\ vectors' = [i \in DOMAIN vectors |->
                         IF \E k \in DOMAIN obj.words :
                                /\ obj.words[k] \in DOMAIN vocab
                                /\ vocab[obj.words[k]].index = i
                         THEN VScale(vectors[i], w_weights[i]) ELSE vectors[i]]
    /\ UNCHANGED <<is_ft, vocab, vectors_vocab, vectors_ngrams, word_weights,
                   ngram_table, owned, pc, ret, first, raised>>

\* for obj in indexed_sentences, under "if not is_ft".
TrainNoFt(t) ==
    /\ pc[t] = "loop"
    /\ ~is_ft
    /\ \E obj \in Yields(t) :
        /\ Assign(t, NoFtSentence(Local(t), obj))
        /\ indexed_sentences' = [indexed_sentences EXCEPT ![t] = Append(@, obj)]
    /\ UNCHANGED <<model, owned, pc, ret, first, raised>>

\* for obj in indexed_sentences, under the else.
TrainFt(t) ==
    /\ pc[t] = "loop"
    /\ is_ft
    /\ \E obj \in Yields(t) :
        /\ Assign(t, FtSentence(Local(t), obj))
        /\ indexed_sentences' = [indexed_sentences EXCEPT ![t] = Append(@, obj)]
    /\ UNCHANGED <<model, owned, pc, ret, first, raised>>

\* return eff_sentences, eff_words, once the iterable is exhausted.
Return(t) ==
    /\ pc[t] = "loop"
    /\ ret' = [ret EXCEPT ![t] = <<eff_sentences[t], eff_words[t]>>]
    /\ pc' = [pc EXCEPT ![t] = "returned"]
    /\ UNCHANGED <<model, s_vectors, indexed_sentences, owned, eff_sentences,
                   eff_words, writes, first, raised>>

\* The caller runs train_average_np a second time, with the same model and
\* batch, on the matrix the first run left.
TrainAgain ==
    /\ pc[1] = "returned"
    /\ first = <<>>
    /\ first' = [target |-> s_vectors, ret |-> ret[1]]
    /\ LET st == train_average_np(indexed_sentences[1], s_vectors)
       IN  /\ Assign(1, st)
           /\ ret' = [ret EXCEPT ![1] = <<st.eff_sentences, st.eff_words>>]
    /\ UNCHANGED <<model, indexed_sentences, owned, pc, raised>>

Next ==
    \/ \E t \in Calls : TrainNoFt(t)
    \/ \E t \in Calls : TrainFt(t)
    \/ \E t \in Calls : Return(t)
    \/ TrainAgain

Spec == Init /\ [][Next]_vars

\* ------------------------------------------------------------ Average ---
\* any(...) in the place of all(...).
all_ones_Any(weights) == \E i \in DOMAIN weights : weights[i] = One

\* all(self.word_weights == 1.)
all_ones(weights) == \A i \in DOMAIN weights : weights[i] = One

\* Average._check_parameter_sanity
CheckParameterSanity ==
    /\ pc[1] = "setup"
    /\ IF ~all_ones(word_weights)
       THEN /\ raised' = "ValueError"
            /\ pc' = [pc EXCEPT ![1] = "failed"]
       ELSE /\ raised' = raised
            /\ pc' = [pc EXCEPT ![1] = "ready"]
    /\ UNCHANGED <<model, s_vectors, indexed_sentences, owned, eff_sentences,
                   eff_words, ret, writes, first>>

\* The training loop of the base class hands batches to _do_train_job only
\* after its setup, which ends with _check_parameter_sanity, has passed.
SetupPassed == pc[1] = "ready"

\* train_average = train_average_np
train_average(batch, target) == train_average_np(batch, target)

\* Average._do_train_job
DoTrainJob ==
    /\ SetupPassed
    /\ \E batch \in BatchesOf(TokensFor(is_ft), 0, 0) :
        LET st == train_average(batch, s_vectors)
        IN  /\ indexed_sentences' = <<batch>>
            /\ Assign(1, st)
            /\ ret' = [ret EXCEPT ![1] = <<st.eff_sentences, st.eff_words>>]
    /\ pc' = [pc EXCEPT ![1] = "done"]
    /\ UNCHANGED <<model, owned, first, raised>>

InitJob ==
    /\ is_ft \in BOOLEAN
    /\ word_weights \in WeightTables
    /\ owned = <<Rows>>
    /\ InitModel
    /\ InitCalls({1}, "setup")

NextJob == CheckParameterSanity \/ DoTrainJob

SpecJob == InitJob /\ [][NextJob]_vars

\* --------------------------------------------------- concurrent calls ---
\* Two calls of the training loop of an Average model, whose weights are 1,
\* on batches with disjoint sets of destination rows.
InitConc ==
    /\ is_ft \in BOOLEAN
    /\ word_weights \in {w \in WeightTables : all_ones(w)}
    /\ owned \in {<<R, Rows \ R>> : R \in SUBSET Rows}
    /\ InitModel
    /\ InitCalls({1, 2}, "loop")

NextConc ==
    \/ \E t \in Calls : TrainNoFt(t)
    \/ \E t \in Calls : TrainFt(t)
    \/ \E t \in Calls : Return(t)

SpecConc == InitConc /\ [][NextConc]_vars

\* ------------------------------------------------------------- claims ---
\* What the claims speak of, stated without the operators of the code.
InVocab(w) == w \in DOMAIN vocab
Resolved(sent) == {k \in DOMAIN sent : InVocab(sent[k])}
NonUnit == \E i \in DOMAIN word_weights : word_weights[i] # One

\* The sum of the rationals f[k], k in S.
RECURSIVE SumOver(_, _)
SumOver(S, f) ==
    IF S = {} THEN Zero
    ELSE LET k == CHOOSE j \in S : TRUE IN RAdd(f[k], SumOver(S \ {k}, f))

\* The sum of the naturals f[k], k in S.
RECURSIVE Total(_, _)
Total(S, f) ==
    IF S = {} THEN 0
    ELSE LET k == CHOOSE j \in S : TRUE IN f[k] + Total(S \ {k}, f)

RDiv(x, n) == Rat(x[1], x[2] * n)

\* The number of sentences call t has processed.
Processed(t) == Len(indexed_sentences[t])
\* The sentence call t processed last, when it has processed one.
Last(t) == indexed_sentences[t][Processed(t)]
\* The sentence a pass of the loop of call t processes.
Current(t) == indexed_sentences'[t][Processed(t) + 1]
\* Call t takes one pass of its loop body in this step.
Pass(t) == pc[t] = "loop" /\ Len(indexed_sentences'[t]) = Processed(t) + 1

\* Mode A: sum of embedding * weight over the resolved occurrences, divided
\* by their number.
WeightedMean(sent) ==
    [c \in Cols |->
        RDiv(SumOver(Resolved(sent),
                     [k \in Resolved(sent) |->
                        RMul(vectors[vocab[sent[k]].index][c],
                             word_weights[vocab[sent[k]].index])]),
             Cardinality(Resolved(sent)))]

ArithmeticMean(sent) ==
    [c \in Cols |->
        RDiv(SumOver(DOMAIN sent, [k \in DOMAIN sent |-> vectors[vocab[sent[k]].index][c]]),
             Len(sent))]

\* C1: in Mode A a pass over a sentence none of whose tokens is in the
\* vocabulary (the empty sentence too) leaves the sentence's row as it was
\* and adds nothing to either count.
C1_UnresolvedSentenceSkipped ==
    [][\A t \in Calls :
         (~is_ft /\ Pass(t) /\ Resolved(Current(t).words) = {})
            => /\ s_vectors'[Current(t).index] = s_vectors[Current(t).index]
               /\ eff_sentences'[t] = eff_sentences[t]
               /\ eff_words'[t] = eff_words[t]]_vars

C1_Witness ==
    /\ ~is_ft
    /\ Processed(1) = 2
    /\ indexed_sentences[1][1].words = <<>>
    /\ indexed_sentences[1][2].words = <<"dog">>
    /\ s_vectors = Untouched
    /\ eff_sentences[1] = 0 /\ eff_words[1] = 0

\* C2: in Mode A the row written for a sentence with a resolved token is
\* the sum of embedding * weight over the resolved occurrences divided by
\* their number; with unit weights and every token resolved it is the
\* arithmetic mean of the token embeddings.
C2_RowIsWeightedMean ==
    \A t \in Calls :
        (~is_ft /\ Processed(t) > 0 /\ Resolved(Last(t).words) # {})
            => /\ s_vectors[Last(t).index] = WeightedMean(Last(t).words)
               /\ (~NonUnit /\ Resolved(Last(t).words) = DOMAIN Last(t).words)
                    => s_vectors[Last(t).index] = ArithmeticMean(Last(t).words)

C2_Witness ==
    /\ ~is_ft
    /\ Processed(1) > 0
    /\ Last(1).words = <<"say", "cat">>
    /\ word_weights[0] # word_weights[1]
    /\ s_vectors[Last(1).index] # Untouched[Last(1).index]

\* The sentences of a batch with at least one word, and those with at least
\* one word of the vocabulary.
NonEmpty(batch) == {k \in DOMAIN batch : Len(batch[k].words) > 0}
WithResolved(batch) == {k \in DOMAIN batch : Resolved(batch[k].words) # {}}

\* The rows of the sentences K of a batch, in the order of the batch.
RowsInOrder(batch, K) ==
    LET kept == SelectSeq([k \in DOMAIN batch |-> k], LAMBDA k : k \in K)
    IN  [j \in DOMAIN kept |-> batch[kept[j]].index]

C4_NonUnitWeightRaisesFirst ==
    NonUnit
        => /\ s_vectors = Untouched
           /\ writes[1] = <<>>
           /\ pc[1] \in {"setup", "failed"}
           /\ pc[1] = "failed" <=> raised = "ValueError"

C4_Witness ==
    /\ NonUnit
    /\ \E i \in DOMAIN word_weights : word_weights[i] = One
    /\ pc[1] = "failed"
    /\ raised = "ValueError"
    /\ ret[1] = <<>>

\* C5: a second run of train_average_np with the same inputs, on the matrix
\* the first run produced, leaves every row as the first run left it and
\* returns the same pair.
C5_SecondRunChangesNothing ==
    first # <<>> => s_vectors = first.target /\ ret[1] = first.ret

C5_Witness ==
    /\ first # <<>>
    /\ Len(writes[1]) = 2
    /\ writes[1][1] = writes[1][2]
    /\ indexed_sentences[1][1].words # indexed_sentences[1][2].words

\* The pair a call returns.
Pair(st) == <<st.eff_sentences, st.eff_words>>

Skipped(sent) == IF is_ft THEN Len(sent) = 0 ELSE Resolved(sent) = {}

\* The sentences of call t a step passes over: the current one in a pass of
\* the loop, all of them in a whole second run.
PassedOver(t) ==
    IF Pass(t) THEN {Processed(t) + 1}
    ELSE IF first' # first THEN DOMAIN indexed_sentences[t]
    ELSE {}

\* C7: a step of train_average_np changes no row but the destination row of
\* a sentence it does not skip, keeps the number of rows and the width of
\* the matrix, and keeps the vocabulary, the embedding matrices and the
\* weight table.
C7_OnlyDestinationRowsChange ==
    [][/\ <<vocab, vectors, vectors_vocab, vectors_ngrams, word_weights>>'
            = <<vocab, vectors, vectors_vocab, vectors_ngrams, word_weights>>
       /\ DOMAIN s_vectors' = DOMAIN s_vectors
       /\ \A r \in DOMAIN s_vectors :
            /\ DOMAIN s_vectors'[r] = DOMAIN s_vectors[r]
            /\ s_vectors'[r] # s_vectors[r]
                 => \E t \in Calls : \E k \in PassedOver(t) :
                        /\ indexed_sentences'[t][k].index = r
                        /\ ~Skipped(indexed_sentences'[t][k].words)]_vars

C7_Witness ==
    /\ Processed(1) = 2
    /\ pc[1] = "loop"
    /\ ~Skipped(indexed_sentences[1][1].words)
    /\ Skipped(indexed_sentences[1][2].words)
    /\ indexed_sentences[1][1].index # indexed_sentences[1][2].index
    /\ s_vectors[indexed_sentences[1][1].index] # Untouched[indexed_sentences[1][1].index]
    /\ s_vectors[indexed_sentences[1][2].index] = Untouched[indexed_sentences[1][2].index]

\* The largest weight of the table.
MaxWeight ==
    CHOOSE x \in {word_weights[i] : i \in DOMAIN word_weights} :
        \A i \in DOMAIN word_weights : ~RLess(x, word_weights[i])

\* Mode B: what a token adds to column c of the accumulator.
Contribution(w, c) ==
    IF InVocab(w)
    THEN RMul(vectors_vocab[vocab[w].index][c], word_weights[vocab[w].index])
    ELSE LET h == ngram_table[w]
         IN  IF h = <<>> THEN Zero
             ELSE RMul(MaxWeight,
                       RDiv(SumOver(DOMAIN h, [j \in DOMAIN h |-> vectors_ngrams[h[j]][c]]),
                            Len(h)))

\* Mode B: the accumulator divided by the number of tokens of the sentence.
FallbackMean(sent) ==
    [c \in Cols |->
        RDiv(SumOver(DOMAIN sent, [k \in DOMAIN sent |-> Contribution(sent[k], c)]),
             Len(sent))]

\* C8: in Mode B the row written for a non-empty sentence is the sum of the
\* tokens' contributions divided by the number of all its tokens: embedding
\* * weight for a token of the vocabulary, the largest weight times the
\* mean of its n-gram rows for an unknown token with n-gram hashes, nothing
\* for an unknown token without; all of the last kind, the row is zero.
C8_FtRowIsFallbackMean ==
    \A t \in Calls :
        (is_ft /\ Processed(t) > 0 /\ Len(Last(t).words) > 0)
            => /\ s_vectors[Last(t).index] = FallbackMean(Last(t).words)
               /\ writes[t] # <<>>
               /\ writes[t][Len(writes[t])] = Last(t).index
               /\ (\A k \in DOMAIN Last(t).words :
                        /\ ~InVocab(Last(t).words[k])
                        /\ ngram_table[Last(t).words[k]] = <<>>)
                    => s_vectors[Last(t).index] = VZero

C8_Witness ==
    /\ is_ft
    /\ Processed(1) = 2
    /\ indexed_sentences[1][1].words = <<"zz">>
    /\ indexed_sentences[1][2].words = <<"dog">>
    /\ indexed_sentences[1][1].index # indexed_sentences[1][2].index
    /\ s_vectors[indexed_sentences[1][1].index] = VZero
    /\ s_vectors[indexed_sentences[1][2].index] # VZero
    /\ word_weights[0] # word_weights[1]

\* C9: in Mode A the returned pair is the number of sentences with a token
\* of the vocabulary and the number of occurrences of tokens of the
\* vocabulary in them.
C9_NoFtCountsResolved ==
    (~is_ft /\ pc[1] = "returned")
        => LET batch == indexed_sentences[1]
           IN  ret[1] = <<Cardinality(WithResolved(batch)),
                          Total(WithResolved(batch),
                                [k \in WithResolved(batch) |->
                                    Cardinality(Resolved(batch[k].words))])>>

C9_Witness ==
    /\ ~is_ft
    /\ pc[1] = "returned"
    /\ Len(indexed_sentences[1]) = 2
    /\ indexed_sentences[1][1].words = <<"dog", "cat">>
    /\ indexed_sentences[1][2].words = <<>>
    /\ ret[1] = <<1, 1>>

\* The counts of call t after the sentences it has processed.
CountsAgree(t) ==
    /\ eff_sentences[t] = Len(writes[t])
    /\ eff_sentences[t] <= Processed(t)
    /\ eff_words[t] >= eff_sentences[t]

\* C10: after every sentence the sentence count is the number of rows
\* written so far in the call and at most the number of sentences processed,
\* the token count is at least the sentence count, and within a call
\* neither count decreases.
C10_CountsFollowWrites ==
    [][\A t \in Calls :
         /\ CountsAgree(t)'
         /\ Pass(t) => /\ eff_sentences'[t] >= eff_sentences[t]
                       /\ eff_words'[t] >= eff_words[t]
                       /\ eff_sentences'[t] > eff_sentences[t]
                            <=> writes'[t] # writes[t]]_vars

C10_Witness ==
    /\ Processed(1) = 2
    /\ eff_sentences[1] = 1
    /\ Len(writes[1]) = 1
    /\ eff_words[1] = 1
    /\ Len(indexed_sentences[1][2].words) = 1

====
